---- MODULE Spec2Model ----
(***************************************************************************)
(* FocusGuard (src/app/main.py): the focus/break countdown of MainWindow   *)
(* together with the CameraMonitor polling threads it starts and stops.    *)
(*                                                                         *)
(* Time is counted in tenths of a second (the greatest common unit of the  *)
(* 0.2 s retry sleep, the 0.3 s frame interval, the 1000 ms timer and the  *)
(* 1500 ms wait).  The control thread is the Qt event loop of MainWindow;  *)
(* signals emitted by a polling thread are queued to it and handled when   *)
(* no other handler is running.                                            *)
(***************************************************************************)
EXTENDS Integers, Sequences, FiniteSets, TLC

-----------------------------------------------------------------------------
(* Bounds of the model *)

\* number of CameraMonitor objects that may be created in one behaviour
MaxMonitors == 2
\* length of the observed time window, in tenths of a second
MaxTime == 30
\* largest value entered in a "seconds" spin box
MaxSeconds == 2
\* number of times the start button is pressed in one behaviour
MaxStarts == 2
\* length of the time window in which one polling loop is observed
LoopWindow == 35
\* the step of the clock while one polling loop is observed
LoopStep == 5
\* the step of the clock in the session specification, in tenths of a second
TimeStep == 10
\* largest y coordinate of a landmark, in units of the coordinate grid
MaxCoord == 22
\* length of the time window in which the frame throttle is observed, with
\* the clock stepping by FrameStep tenths of a second
FrameWindow == 8
FrameStep == 1
\* length of the time window in which a stop may be requested
StopWindow == 10

-----------------------------------------------------------------------------
(* Program constants *)

\* tenths of a second per second (time.time() and the spin boxes count seconds)
UnitsPerSecond == 10
\* time.time() of the first observed instant: far above every cooldown
Epoch == 1000
\* self._timer.start(1000)
TickInterval == 10
\* self._monitor.wait(1500)
WaitTimeout == 15
\* self._frame_interval = 0.3
FrameInterval == 3
\* time.sleep(0.2)
ReadRetrySleep == 2
\* minimum of cooldown_input, SpinBoxWithButtons(3, 120, ...)
CooldownMin == 3
\* focus_total = minutes * 60 + seconds
SecondsPerMinute == 60
\* return ratio > 0.45, as the fraction 45 / 100
ThresholdNum == 45
ThresholdDen == 100

\* the labels _phone_detected accepts
AllowList == {"cell phone", "phone", "mobile phone", "remote"}

\* AppConfig defaults
DefaultConfig ==
  [focus_minutes |-> 25, focus_seconds |-> 0,
   break_minutes |-> 5, break_seconds |-> 0,
   prompt_cooldown |-> 10, enable_monitor |-> TRUE]

\* search_order = [1, 0] if sys.platform == "darwin" else [0, 1]
SearchOrder(isDarwin) == IF isDarwin THEN <<1, 0>> ELSE <<0, 1>>

NoCap == -1

-----------------------------------------------------------------------------
VARIABLES
  clock,          \* time.time(), in tenths of a second
  darwin,         \* sys.platform == "darwin"
  config,         \* MainWindow._config (shared with every CameraMonitor)
  remaining,      \* MainWindow._remaining
  is_break_mode,  \* MainWindow._is_break_mode
  timer_active,   \* MainWindow._timer is running
  timer_due,      \* the time of the next timeout of MainWindow._timer (0: none)
  monitor,        \* MainWindow._monitor: 0 is None, else a monitor id
  start_enabled,  \* start_button.isEnabled()
  stop_enabled,   \* stop_button.isEnabled()
  monitor_status, \* text of the monitor_status label
  ctl,            \* position of the control thread
  wait_deadline,  \* when the wait(1500) in progress gives up (0: no wait)
  queue,          \* signals queued to the control thread
  mon,            \* the CameraMonitor objects and their threads
  created,        \* number of CameraMonitor objects created so far
  tooltip,        \* the text last shown (and spoken) by _on_prompt
  starts,         \* number of _on_start calls so far
  ticks,          \* history: ticks handled since the start of the session
  last_emit,      \* history: the last two prompt_needed emissions
  landmarks,      \* the y coordinates of the face landmarks given to _head_down
  head_down       \* what _head_down returned for them, <<>> before the call

vars == <<clock, darwin, config, remaining, is_break_mode, timer_active,
          timer_due, monitor, start_enabled, stop_enabled, monitor_status,
          ctl, wait_deadline, queue, mon, created, tooltip, starts, ticks,
          last_emit, landmarks, head_down>>

Monitors == 1..MaxMonitors

-----------------------------------------------------------------------------
(* CameraMonitor.__init__.  statuses, emits and looped are history: the    *)
(* number of status and prompt_needed signals the thread has emitted and   *)
(* whether it has entered the polling loop.                                *)

NewMonitor ==
  [pc |-> "init", stop_flag |-> FALSE, last_prompt_time |-> 0,
   face_mesh |-> FALSE, yolo |-> FALSE, yolo_missing |-> FALSE,
   idx |-> 1, temp_cap |-> NoCap, cap |-> NoCap,
   last_frame_time |-> 0, now |-> 0, wake |-> 0,
   statuses |-> 0, emits |-> 0, looped |-> FALSE]

\* a CameraMonitor that has not been created yet
Unborn == [NewMonitor EXCEPT !.pc = "none"]

\* the monitor r once run has returned ("done") or raised ("crashed"):
\* nothing reads its attributes and locals any more, so only the stop flag
\* and the camera handles it has not released are kept
Ended(r, how) ==
  [Unborn EXCEPT !.pc = how,
                 !.stop_flag = r.stop_flag,
                 !.cap = r.cap,
                 !.temp_cap = r.temp_cap]

FocusTotal(cfg) == cfg.focus_minutes * SecondsPerMinute + cfg.focus_seconds
BreakTotal(cfg) == cfg.break_minutes * SecondsPerMinute + cfg.break_seconds

\* the thread of monitor m has not ended
Alive(m) == mon[m].pc \notin {"none", "done", "crashed"}

\* the camera devices on which monitor m holds an open handle
Held(m) == {mon[m].cap, mon[m].temp_cap} \ {NoCap}

\* camera device d is open in some thread
InUse(d) == \E m \in Monitors : d \in Held(m)

\* the indexes of the landmarks _head_down reads (lines 238-241)
EyeLeft == 33
EyeRight == 263
Nose == 1
Chin == 152
LandmarkIds == {EyeLeft, EyeRight, Nose, Chin}

\* no face has been given to _head_down
NoLandmarks == [i \in LandmarkIds |-> 0]

-----------------------------------------------------------------------------
(* The state after MainWindow.__init__ *)

InitWith(platforms, faces) ==
  /\ clock = Epoch
  /\ darwin \in platforms
  /\ config = DefaultConfig
  /\ remaining = 0
  /\ is_break_mode = FALSE
  /\ timer_active = FALSE
  /\ timer_due = 0
  /\ monitor = 0
  /\ start_enabled = TRUE
  /\ stop_enabled = FALSE
  /\ monitor_status = ""
  /\ ctl = "idle"
  /\ wait_deadline = 0
  /\ queue = <<>>
  /\ mon = [m \in Monitors |-> Unborn]
  /\ created = 0
  /\ tooltip = ""
  /\ starts = 0
  /\ ticks = 0
  /\ last_emit = <<>>
  /\ landmarks \in faces
  /\ head_down = <<>>

\* the state after MainWindow.__init__ when _head_down is not looked at
InitOn(platforms) == InitWith(platforms, {NoLandmarks})

-----------------------------------------------------------------------------
(* MainWindow: the control thread *)

\* _start_monitor
StartMonitor ==
  IF monitor # 0
    THEN UNCHANGED <<monitor, mon, created>>
    ELSE /\ created < MaxMonitors
         /\ created' = created + 1
         /\ monitor' = created + 1
         /\ mon' = [mon EXCEPT ![created + 1] = NewMonitor]

\* a focus phase that starts the monitor whether or not monitoring is enabled
StartFocusPhaseAlways(cfg) ==
  /\ is_break_mode' = FALSE
  /\ remaining' = FocusTotal(cfg)
  /\ StartMonitor
  /\ monitor_status' = "focus_on"

\* _start_focus_phase, with the configuration cfg
StartFocusPhase(cfg) ==
  /\ is_break_mode' = FALSE
  /\ remaining' = FocusTotal(cfg)
  /\ IF cfg.enable_monitor
       THEN /\ StartMonitor
            /\ monitor_status' = "focus_on"
       ELSE /\ monitor_status' = "focus_off"
            /\ UNCHANGED <<monitor, mon, created>>

\* _stop_monitor up to and including the call of wait(1500); `caller` is the
\* position the control thread takes while it is blocked in the wait
StopMonitor(caller, label, done) ==
  IF monitor # 0
    THEN /\ mon' = [mon EXCEPT ![monitor].stop_flag = TRUE]
         /\ ctl' = caller
         /\ wait_deadline' = clock + WaitTimeout
         /\ monitor_status' = label
         /\ UNCHANGED monitor
    ELSE /\ monitor_status' = done
         /\ UNCHANGED <<mon, ctl, wait_deadline, monitor>>

\* _start_break_phase
StartBreakPhase ==
  /\ is_break_mode' = TRUE
  /\ remaining' = BreakTotal(config)
  /\ StopMonitor("break_wait", "break", "paused")
  /\ UNCHANGED created

\* the test reads the value from before the decrement, and strictly
PhaseOverBeforeDecrement(r) == r + 1 < 0

\* the countdown is taken to be over one tick late
PhaseOverLate(r) == r < 0

\* the countdown is over (line 670)
PhaseOver(r) == r <= 0

\* the timeout after the one handled at time `at` that was due at time `due`
NextDue(due, at) ==
  IF due + TickInterval > at THEN due + TickInterval ELSE at + TickInterval

\* only the focus total is validated
RejectedFocusOnly(cfg) == FocusTotal(cfg) <= 0

\* lines 591-596: _on_start returns without starting the session
Rejected(cfg) == FocusTotal(cfg) <= 0 \/ BreakTotal(cfg) <= 0

\* _on_start with the values of the input widgets
OnStart(fm, fs, bm, bs, cd, en) ==
  /\ ctl = "idle"
  /\ start_enabled
  /\ starts < MaxStarts
  /\ starts' = starts + 1
  /\ config' = [focus_minutes |-> fm, focus_seconds |-> fs,
                break_minutes |-> bm, break_seconds |-> bs,
                prompt_cooldown |-> cd, enable_monitor |-> en]
  /\ IF Rejected(config')
       THEN UNCHANGED <<remaining, is_break_mode, timer_active, timer_due,
                        monitor, start_enabled, stop_enabled, monitor_status,
                        mon, created, ticks>>
       ELSE /\ start_enabled' = FALSE
            /\ stop_enabled' = TRUE
            /\ StartFocusPhase(config')
            /\ timer_active' = TRUE
            /\ timer_due' = clock + TickInterval
            /\ ticks' = 0
  /\ UNCHANGED <<clock, darwin, ctl, wait_deadline, queue, tooltip, last_emit,
                 landmarks, head_down>>

\* _on_tick
OnTick ==
  /\ ctl = "idle"
  /\ timer_active
  /\ clock >= timer_due
  /\ timer_due' = NextDue(timer_due, clock)
  /\ ticks' = ticks + 1
  /\ IF PhaseOver(remaining - 1)
       THEN IF ~is_break_mode
              THEN StartBreakPhase
              ELSE /\ StartFocusPhase(config)
                   /\ UNCHANGED <<ctl, wait_deadline>>
       ELSE /\ remaining' = remaining - 1
            /\ UNCHANGED <<is_break_mode, monitor, monitor_status, ctl,
                           wait_deadline, mon, created>>
  /\ UNCHANGED <<clock, darwin, config, timer_active, start_enabled,
                 stop_enabled, queue, tooltip, starts, last_emit,
                 landmarks, head_down>>

\* _on_stop up to the wait(1500) of _stop_monitor, or to its end when there
\* is no monitor
OnStop ==
  /\ ctl = "idle"
  /\ stop_enabled
  /\ timer_active' = FALSE
  /\ timer_due' = 0
  /\ ticks' = 0
  /\ StopMonitor("stop_wait", "", "")
  /\ IF monitor # 0
       THEN UNCHANGED <<start_enabled, stop_enabled>>
       ELSE start_enabled' = TRUE /\ stop_enabled' = FALSE
  /\ UNCHANGED <<clock, darwin, config, remaining, is_break_mode, queue,
                 created, tooltip, starts, last_emit,
                 landmarks, head_down>>

\* QThread.wait(1500) is over: the thread has ended or the time is up
WaitOver == clock >= wait_deadline \/ ~Alive(monitor)

\* the rest of _stop_monitor, and of _on_stop when it was the caller
StopMonitorReturn ==
  /\ ctl \in {"break_wait", "stop_wait"}
  /\ WaitOver
  /\ monitor' = 0
  /\ ctl' = "idle"
  /\ wait_deadline' = 0
  /\ IF ctl = "stop_wait"
       THEN /\ monitor_status' = ""
            /\ start_enabled' = TRUE
            /\ stop_enabled' = FALSE
       ELSE /\ monitor_status' = "paused"
            /\ UNCHANGED <<start_enabled, stop_enabled>>
  /\ UNCHANGED <<clock, darwin, config, remaining, is_break_mode,
                 timer_active, timer_due, queue, mon, created, tooltip,
                 starts, ticks, last_emit,
                 landmarks, head_down>>

\* the phase of the session
Phase ==
  IF ~timer_active THEN "Idle" ELSE IF is_break_mode THEN "Break" ELSE "Focus"

\* _on_prompt, for the prompt_needed signal at the head of the queue
OnPrompt ==
  /\ ctl = "idle"
  /\ queue # <<>>
  /\ Head(queue).sig = "prompt_needed"
  /\ queue' = Tail(queue)
  /\ tooltip' = Head(queue).msg
  /\ UNCHANGED <<clock, darwin, config, remaining, is_break_mode,
                 timer_active, timer_due, monitor, start_enabled,
                 stop_enabled, monitor_status, ctl, wait_deadline, mon,
                 created, starts, ticks, last_emit,
                 landmarks, head_down>>

\* a handler that halts the timer when the monitor reports that it gave up
OnMonitorStatusHalts ==
  /\ ctl = "idle"
  /\ queue # <<>>
  /\ Head(queue).sig = "status"
  /\ queue' = Tail(queue)
  /\ monitor_status' =
       IF ~is_break_mode THEN Head(queue).msg ELSE monitor_status
  /\ timer_active' =
       IF Head(queue).msg = "no_yolo" THEN timer_active ELSE FALSE
  /\ UNCHANGED <<clock, darwin, config, remaining, is_break_mode, timer_due,
                 monitor, start_enabled, stop_enabled, ctl, wait_deadline,
                 mon, created, tooltip, starts, ticks, last_emit,
                 landmarks, head_down>>

\* _on_monitor_status, for the status signal at the head of the queue
OnMonitorStatus ==
  /\ ctl = "idle"
  /\ queue # <<>>
  /\ Head(queue).sig = "status"
  /\ queue' = Tail(queue)
  /\ monitor_status' =
       IF ~is_break_mode THEN Head(queue).msg ELSE monitor_status
  /\ UNCHANGED <<clock, darwin, config, remaining, is_break_mode,
                 timer_active, timer_due, monitor, start_enabled,
                 stop_enabled, ctl, wait_deadline, mon, created, tooltip, starts,
                 ticks, last_emit,
                 landmarks, head_down>>

-----------------------------------------------------------------------------
(* CameraMonitor: the polling thread.  The locals `now` and `wake` of run  *)
(* are kept in the state only while they are live: `now` from the frame    *)
(* that passes the throttle to the end of its iteration, `wake` during the *)
(* sleep; elsewhere they are 0.                                            *)

\* a signal queued to the control thread
Signal(name, msg) == [sig |-> name, msg |-> msg]

\* what _init_models can end in: the landmark model and the object detector
\* each loaded or unavailable, or the load of the detector (line 232, after
\* the landmark model was loaded or found missing) raising
InitOutcomes ==
  [face : BOOLEAN, yolo : BOOLEAN, raised : {FALSE}]
    \cup [face : BOOLEAN, yolo : {FALSE}, raised : {TRUE}]

\* run, lines 273-279: _init_models and the two status reports
InitModels(m, o) ==
  /\ mon[m].pc = "init"
  /\ IF o.raised
       THEN /\ mon' = [mon EXCEPT ![m] = Ended(@, "crashed")]
            /\ UNCHANGED queue
       ELSE IF ~o.face
         THEN /\ mon' = [mon EXCEPT ![m] = Ended(@, "done")]
              /\ queue' = Append(queue, Signal("status", "no_model"))
         ELSE /\ mon' = [mon EXCEPT ![m].pc = "open",
                                    ![m].face_mesh = TRUE,
                                    ![m].yolo = o.yolo,
                                    ![m].yolo_missing = ~o.yolo,
                                    ![m].statuses =
                                       IF ~o.yolo THEN @ + 1 ELSE @]
              /\ queue' = IF ~o.yolo
                            THEN Append(queue, Signal("status", "no_yolo"))
                            ELSE queue
  /\ UNCHANGED <<clock, darwin, config, remaining, is_break_mode,
                 timer_active, timer_due, monitor, start_enabled,
                 stop_enabled, monitor_status, ctl, wait_deadline, created,
                 tooltip, starts, ticks, last_emit,
                 landmarks, head_down>>

\* run, lines 284-286 and 295-297: open the next camera of the search order,
\* or give up when none is left; a device that is open elsewhere does not open
OpenCamera(m, opened) ==
  /\ mon[m].pc = "open"
  /\ IF mon[m].idx > Len(SearchOrder(darwin))
       THEN /\ ~opened
            /\ mon' = [mon EXCEPT ![m] = Ended(@, "done")]
            /\ queue' = Append(queue, Signal("status", "no_camera"))
       ELSE LET d == SearchOrder(darwin)[mon[m].idx] IN
            /\ opened => ~InUse(d)
            /\ mon' = IF opened
                        THEN [mon EXCEPT ![m].pc = "probe", ![m].temp_cap = d]
                        ELSE [mon EXCEPT ![m].idx = @ + 1]
            /\ UNCHANGED queue
  /\ UNCHANGED <<clock, darwin, config, remaining, is_break_mode,
                 timer_active, timer_due, monitor, start_enabled,
                 stop_enabled, monitor_status, ctl, wait_deadline, created,
                 tooltip, starts, ticks, last_emit,
                 landmarks, head_down>>

\* run, lines 287-293: the one-read probe of the camera just opened; the
\* handle is owned by cap when the probe passes and released when it fails
ProbeCamera(m, ret) ==
  /\ mon[m].pc = "probe"
  /\ mon' = IF ret
              THEN [mon EXCEPT ![m].pc = "loop", ![m].cap = mon[m].temp_cap,
                               ![m].temp_cap = NoCap]
              ELSE [mon EXCEPT ![m].pc = "open", ![m].temp_cap = NoCap,
                               ![m].idx = @ + 1]
  /\ UNCHANGED <<clock, darwin, config, remaining, is_break_mode,
                 timer_active, timer_due, monitor, start_enabled,
                 stop_enabled, monitor_status, ctl, wait_deadline, queue,
                 created, tooltip, starts, ticks, last_emit,
                 landmarks, head_down>>

\* a loop that never looks at the stop flag
LoopTestDeaf(m) ==
  /\ mon[m].pc = "loop"
  /\ mon' = [mon EXCEPT ![m].pc = "read", ![m].looped = TRUE]
  /\ UNCHANGED <<clock, darwin, config, remaining, is_break_mode,
                 timer_active, timer_due, monitor, start_enabled,
                 stop_enabled, monitor_status, ctl, wait_deadline, queue,
                 created, tooltip, starts, ticks, last_emit,
                 landmarks, head_down>>

\* run, line 302 and line 326: the test of the stop flag
LoopTest(m) ==
  /\ mon[m].pc = "loop"
  /\ mon' = IF mon[m].stop_flag
              THEN [mon EXCEPT ![m] = Ended([@ EXCEPT !.cap = NoCap],
                                            "done")]
              ELSE [mon EXCEPT ![m].pc = "read", ![m].looped = TRUE]
  /\ UNCHANGED <<clock, darwin, config, remaining, is_break_mode,
                 timer_active, timer_due, monitor, start_enabled,
                 stop_enabled, monitor_status, ctl, wait_deadline, queue,
                 created, tooltip, starts, ticks, last_emit,
                 landmarks, head_down>>

\* the interval is taken one tenth of a second too short
ThrottledShort(t, last) == t - last < FrameInterval - 1

\* the frame read at time t comes too soon after the last accepted one
Throttled(t, last) == t - last < FrameInterval

\* run, lines 303-310: cap.read() returns
ReadFrame(m, ok) ==
  /\ mon[m].pc = "read"
  /\ mon' =
       IF ~ok
         THEN [mon EXCEPT ![m].pc = "sleep",
                          ![m].wake = clock + ReadRetrySleep]
         ELSE IF Throttled(clock, mon[m].last_frame_time)
           THEN [mon EXCEPT ![m].pc = "loop"]
           ELSE [mon EXCEPT ![m].pc = "process", ![m].now = clock,
                            ![m].last_frame_time = clock]
  /\ UNCHANGED <<clock, darwin, config, remaining, is_break_mode,
                 timer_active, timer_due, monitor, start_enabled,
                 stop_enabled, monitor_status, ctl, wait_deadline, queue,
                 created, tooltip, starts, ticks, last_emit,
                 landmarks, head_down>>

\* run, lines 305-306: time.sleep(0.2) is over
Wake(m) ==
  /\ mon[m].pc = "sleep"
  /\ clock >= mon[m].wake
  /\ mon' = [mon EXCEPT ![m].pc = "loop", ![m].wake = 0]
  /\ UNCHANGED <<clock, darwin, config, remaining, is_break_mode,
                 timer_active, timer_due, monitor, start_enabled,
                 stop_enabled, monitor_status, ctl, wait_deadline, queue,
                 created, tooltip, starts, ticks, last_emit,
                 landmarks, head_down>>

\* the label sets the object detector reports in the model
FrameLabels == {{}, {"cell phone"}, {"keyboard", "cup"}, {"remote", "cup"}}

\* what the classifiers make of one frame: a call raises, or the landmark
\* model finds a face or none, _head_down answers, the detector reports labels
Frames ==
  [raised : {TRUE}, face : {FALSE}, head_down : {FALSE}, labels : {{}}]
    \cup [raised : {FALSE}, face : {FALSE}, head_down : {FALSE},
          labels : FrameLabels]
    \cup [raised : {FALSE}, face : {TRUE}, head_down : BOOLEAN,
          labels : FrameLabels]

\* _phone_detected, for a detector that is loaded or not
PhoneDetected(yolo, labels) ==
  IF ~yolo THEN FALSE ELSE \E name \in labels : name \in AllowList

\* the cooldown is not applied
CooldownIgnored(t, last, cd) == TRUE

\* the cooldown must be exceeded, not only reached
CooldownExceeded(t, last, cd) == t - last > cd * UnitsPerSecond

\* line 322: the cooldown cd (seconds) has elapsed at time t
CooldownElapsed(t, last, cd) == t - last >= cd * UnitsPerSecond

\* lines 314-321: the frame f qualifies as a distraction for monitor r
Qualifies(r, f) ==
  /\ f.face
  /\ \/ f.head_down
     \/ IF r.yolo THEN PhoneDetected(r.yolo, f.labels) ELSE FALSE

\* run, lines 312-324: the classifiers return for the frame accepted
ProcessFrame(m, f) ==
  /\ mon[m].pc = "process"
  /\ IF f.raised
       THEN /\ mon' = [mon EXCEPT ![m] = Ended(@, "crashed")]
            /\ UNCHANGED <<queue, last_emit>>
       ELSE IF /\ Qualifies(mon[m], f)
               /\ CooldownElapsed(mon[m].now, mon[m].last_prompt_time,
                                  config.prompt_cooldown)
         THEN /\ mon' = [mon EXCEPT ![m].pc = "loop", ![m].now = 0,
                                    ![m].last_prompt_time = mon[m].now,
                                    ![m].emits = @ + 1]
              /\ queue' = Append(queue, Signal("prompt_needed", "prompt"))
              /\ last_emit' = <<[src |-> m, at |-> mon[m].now,
                                 cd |-> config.prompt_cooldown]>>
                               \o (IF last_emit = <<>> THEN <<>>
                                                        ELSE <<last_emit[1]>>)
         ELSE /\ mon' = [mon EXCEPT ![m].pc = "loop", ![m].now = 0]
              /\ UNCHANGED <<queue, last_emit>>
  /\ UNCHANGED <<clock, darwin, config, remaining, is_break_mode,
                 timer_active, timer_due, monitor, start_enabled,
                 stop_enabled, monitor_status, ctl, wait_deadline, created,
                 tooltip, starts, ticks, landmarks, head_down>>

\* one step of the polling thread of monitor m
MonitorStep(m) ==
  \/ \E o \in InitOutcomes : InitModels(m, o)
  \/ \E opened \in BOOLEAN : OpenCamera(m, opened)
  \/ \E ret \in BOOLEAN : ProbeCamera(m, ret)
  \/ LoopTest(m)
  \/ \E ok \in BOOLEAN : ReadFrame(m, ok)
  \/ Wake(m)
  \/ \E f \in Frames : ProcessFrame(m, f)

-----------------------------------------------------------------------------
(* Time *)

\* something is ready to run at once: a handler of the idle event loop, the
\* return of the wait, or a step of a thread that does not block
Urgent ==
  \/ ctl = "idle" /\ queue # <<>>
  \/ ctl = "idle" /\ timer_active /\ clock >= timer_due
  \/ ctl # "idle" /\ WaitOver
  \/ \E m \in Monitors : mon[m].pc = "loop"
  \/ \E m \in Monitors : mon[m].pc = "sleep" /\ clock >= mon[m].wake

\* time passes: d tenths of a second, within a window of `window`
AdvanceBy(d, window) ==
  /\ clock < Epoch + window
  /\ ~Urgent
  /\ clock' = clock + d
  /\ UNCHANGED <<darwin, config, remaining, is_break_mode, timer_active,
                 timer_due, monitor, start_enabled, stop_enabled,
                 monitor_status, ctl, wait_deadline, queue, mon, created,
                 tooltip, starts,
                 ticks, last_emit,
                 landmarks, head_down>>

-----------------------------------------------------------------------------
(* The session: the user, the timer, the polling threads and the clock.   *)
(* The platform is not darwin; the values entered are 0 minutes, up to     *)
(* MaxSeconds seconds and the shortest cooldown.                           *)

SecondInputs == 0..MaxSeconds

Init == InitOn({FALSE})

Next ==
  \/ \E fs \in SecondInputs, bs \in SecondInputs, en \in BOOLEAN :
       OnStart(0, fs, 0, bs, CooldownMin, en)
  \/ OnTick
  \/ OnStop
  \/ StopMonitorReturn
  \/ OnPrompt
  \/ OnMonitorStatus
  \/ \E m \in Monitors : MonitorStep(m)
  \/ AdvanceBy(TimeStep, MaxTime)

Spec == Init /\ [][Next]_vars

-----------------------------------------------------------------------------
(* One run of the polling loop, on either platform: a session of one       *)
(* minute of focus with monitoring is started once and not stopped within  *)
(* the window observed.                                                    *)

InitLoop == InitOn(BOOLEAN)

NextLoop ==
  \/ starts = 0 /\ OnStart(1, 0, 1, 0, CooldownMin, TRUE)
  \/ OnTick
  \/ OnPrompt
  \/ OnMonitorStatus
  \/ \E m \in Monitors : MonitorStep(m)
  \/ AdvanceBy(LoopStep, LoopWindow)

SpecLoop == InitLoop /\ [][NextLoop]_vars

-----------------------------------------------------------------------------
(* The frame throttle: one run of the polling loop with the clock stepping  *)
(* by a tenth of a second, observed for less than the first second of the   *)
(* session, so that no tick falls into the window.                         *)

InitFrames == InitOn({FALSE})

NextFrames ==
  \/ starts = 0 /\ OnStart(1, 0, 1, 0, CooldownMin, TRUE)
  \/ OnPrompt
  \/ OnMonitorStatus
  \/ \E m \in Monitors : MonitorStep(m)
  \/ AdvanceBy(FrameStep, FrameWindow)

SpecFrames == InitFrames /\ [][NextFrames]_vars

-----------------------------------------------------------------------------
(* Cancellation: a session of one minute of focus with monitoring, started  *)
(* once and stopped at any moment of the window.  Every call the polling    *)
(* thread makes returns: no step ends it by an exception.  The clock goes   *)
(* on beyond the window for as long as the control thread is in its wait or *)
(* a thread that was asked to stop is asleep.  Threads are scheduled        *)
(* fairly, the event loop handles what is due, and time passes.             *)

\* a step of the polling thread of monitor m in which every call returns
MonitorStepReturning(m) == MonitorStep(m) /\ mon'[m].pc # "crashed"

\* somebody waits for time to pass after a stop was requested
SomeoneWaits ==
  \/ ctl # "idle"
  \/ \E m \in Monitors : mon[m].pc = "sleep" /\ mon[m].stop_flag

AdvanceStop ==
  AdvanceBy(LoopStep, IF SomeoneWaits THEN clock - Epoch + 1 ELSE StopWindow)

InitStop == InitOn({FALSE})

NextStop ==
  \/ starts = 0 /\ OnStart(1, 0, 1, 0, CooldownMin, TRUE)
  \/ OnTick
  \/ OnStop
  \/ StopMonitorReturn
  \/ OnPrompt
  \/ OnMonitorStatus
  \/ \E m \in Monitors : MonitorStepReturning(m)
  \/ AdvanceStop

FairStop ==
  /\ \A m \in Monitors : WF_vars(MonitorStepReturning(m))
  /\ WF_vars(OnTick)
  /\ WF_vars(StopMonitorReturn)
  /\ WF_vars(OnPrompt)
  /\ WF_vars(OnMonitorStatus)
  /\ WF_vars(AdvanceStop)

SpecStop == InitStop /\ [][NextStop]_vars /\ FairStop

-----------------------------------------------------------------------------
(* _head_down on a grid of landmark coordinates.  The coordinates are whole *)
(* numbers of grid units; eye_mid_y is kept doubled, so that the ratio is   *)
(* the fraction Num2 / Denom2 of two integers and its comparison with 0.45  *)
(* is exact.                                                                *)

Coords == 0..MaxCoord

\* twice eye_mid_y = (eye_left.y + eye_right.y) / 2.0
EyeMid2(lm) == lm[EyeLeft] + lm[EyeRight]
\* twice denom = chin.y - eye_mid_y
Denom2(lm) == 2 * lm[Chin] - EyeMid2(lm)
\* twice nose.y - eye_mid_y
Num2(lm) == 2 * lm[Nose] - EyeMid2(lm)

\* the threshold is reached, not only exceeded
HeadDownInclusive(lm) ==
  IF Denom2(lm) <= 0 THEN FALSE
  ELSE Num2(lm) * ThresholdDen >= ThresholdNum * Denom2(lm)

\* _head_down: False when denom <= 0, else ratio > 0.45
HeadDown(lm) ==
  IF Denom2(lm) <= 0 THEN FALSE
  ELSE Num2(lm) * ThresholdDen > ThresholdNum * Denom2(lm)

\* _head_down is called on the landmarks
CallHeadDown ==
  /\ head_down = <<>>
  /\ head_down' = <<HeadDown(landmarks)>>
  /\ UNCHANGED <<clock, darwin, config, remaining, is_break_mode,
                 timer_active, timer_due, monitor, start_enabled,
                 stop_enabled, monitor_status, ctl, wait_deadline, queue,
                 mon, created, tooltip, starts, ticks, last_emit, landmarks>>

InitHead == InitWith({FALSE}, [LandmarkIds -> Coords])

NextHead == CallHeadDown

SpecHead == InitHead /\ [][NextHead]_vars

-----------------------------------------------------------------------------
(* The claims *)

\* C1: with focus total F >= 1 and break total B >= 1, a running session
\* that has handled k ticks since its start is in Focus with remaining
\* F - k' when k' = k mod (F + B) is below F, and in Break with remaining
\* B - (k' - F) otherwise: a start gives Focus with F, the F-th tick and no
\* earlier one gives Break with B, B further ticks give Focus with F again,
\* and so on until a stop.
C1_Cycle ==
  timer_active =>
    LET F == FocusTotal(config)
        B == BreakTotal(config)
        k == ticks % (F + B)
    IN  /\ F >= 1
        /\ B >= 1
        /\ IF k < F
             THEN ~is_break_mode /\ remaining = F - k
             ELSE is_break_mode /\ remaining = B - (k - F)

\* a second session, started after one that ran a monitor, is back in Focus
\* after one full cycle
C1_Witness ==
  /\ timer_active
  /\ starts = 2
  /\ created = 1
  /\ ~config.enable_monitor
  /\ ticks = FocusTotal(config) + BreakTotal(config)
  /\ ~is_break_mode
  /\ remaining = FocusTotal(config)

\* C2: monitoring pauses during breaks: _on_prompt never runs while the
\* phase is Break.
C2_NoPromptInBreak == [][OnPrompt => Phase # "Break"]_vars

\* the time between the last two emissions is at least the cooldown of the
\* later one
LastTwoApart ==
  last_emit[1].at - last_emit[2].at >= last_emit[1].cd * UnitsPerSecond

\* the monitor m emits prompt_needed in this step
Emits(m) == mon'[m].emits = mon[m].emits + 1

\* C3: within one run of the polling loop, a qualifying frame read at time t
\* emits exactly when the run has not emitted before or t is at least the
\* cooldown after its last emission; so the first qualifying frame emits, a
\* qualifying frame at or after last + cooldown emits, and two emissions of
\* one run are at least the cooldown apart.
C3_Cooldown ==
  [][\A m \in Monitors : \A f \in Frames :
       (ProcessFrame(m, f) /\ ~f.raised /\ Qualifies(mon[m], f)) =>
         /\ Emits(m) <=>
              \/ mon[m].emits = 0
              \/ /\ last_emit # <<>>
                 /\ last_emit[1].src = m
                 /\ mon[m].now - last_emit[1].at
                      >= config.prompt_cooldown * UnitsPerSecond
         /\ Emits(m) =>
              /\ last_emit'[1].at = mon[m].now
              /\ mon[m].emits > 0 =>
                   /\ Len(last_emit') = 2
                   /\ last_emit'[2].src = m
                   /\ LastTwoApart']_vars

\* a polling loop has emitted twice
C3_Witness == \E m \in Monitors : mon[m].emits = 2

\* C4: over the whole session any two consecutive emissions of prompt_needed
\* are at least the cooldown apart, whichever monitors emitted them.
C4_GlobalCooldown == Len(last_emit) = 2 => LastTwoApart

\* C5: when _stop_monitor returns, the monitor it stopped holds no camera.
C5_StopReleasesCamera == [][StopMonitorReturn => Held(monitor) = {}]_vars

\* C6: an exception in the processing of one frame is swallowed: the thread
\* goes on to the next test of the loop with its camera handle.
C6_FrameFailureSwallowed ==
  [][\A m \in Monitors :
       mon[m].pc = "process" =>
         /\ mon'[m].pc \in {"process", "loop"}
         /\ mon'[m].cap = mon[m].cap]_vars

\* what a tick makes of the phase and the remaining seconds when no monitor
\* is involved
TickResult(brk, rem, cfg) ==
  IF rem - 1 > 0 THEN <<brk, rem - 1>>
  ELSE IF brk THEN <<FALSE, FocusTotal(cfg)>> ELSE <<TRUE, BreakTotal(cfg)>>

\* C7: no step of a polling thread and no handler of its signals changes the
\* phase, the remaining seconds or the timer, and every tick takes the phase
\* and the remaining seconds to the values it gives without monitoring.
C7_TimerIndependent ==
  [][/\ ((\E m \in Monitors : MonitorStep(m)) \/ OnPrompt \/ OnMonitorStatus)
          => UNCHANGED <<remaining, is_break_mode, timer_active, timer_due>>
     /\ OnTick =>
          /\ <<is_break_mode', remaining'>> =
               TickResult(is_break_mode, remaining, config)
          /\ timer_active']_vars

\* the timer has ticked in Focus while the monitor of the phase has ended by
\* an exception
C7_Witness ==
  /\ timer_active
  /\ ~is_break_mode
  /\ ticks >= 1
  /\ monitor # 0
  /\ mon[monitor].pc = "crashed"

\* the thread of monitor m ends before it has accepted a camera: in
\* _init_models without a landmark model, or in the search for a camera
GivesUp(m) ==
  \/ \E o \in InitOutcomes : ~o.face /\ InitModels(m, o)
  \/ /\ mon[m].pc \in {"open", "probe"}
     /\ mon'[m].pc \in {"done", "crashed"}

\* C8: when the landmark model is unavailable or no camera opens and passes
\* the probe, the thread reports a status in the step in which it gives up,
\* returns, has not entered the loop, has emitted no prompt and holds no
\* camera; a camera that fails the probe is released before the next is tried.
C8_FatalExitReports ==
  [][\A m \in Monitors :
       /\ GivesUp(m) =>
            /\ mon'[m].pc = "done"
            /\ Len(queue') = Len(queue) + 1
            /\ queue'[Len(queue')].sig = "status"
            /\ ~mon[m].looped
            /\ mon[m].emits = 0
            /\ mon'[m].cap = NoCap /\ mon'[m].temp_cap = NoCap
       /\ mon'[m].pc = "open" => mon'[m].temp_cap = NoCap]_vars

\* C9: a detector that cannot be loaded, however the load fails, is not
\* fatal: the thread goes on to open the camera, and without a detector a
\* frame emits exactly when it shows a face that is head-down and the
\* cooldown has elapsed.
C9_DetectorNotFatal ==
  [][\A m \in Monitors :
       /\ (\E o \in InitOutcomes : o.face /\ ~o.yolo /\ InitModels(m, o))
            => mon'[m].pc = "open" /\ ~mon'[m].yolo
       /\ \A f \in Frames :
            (~mon[m].yolo /\ ~f.raised /\ ProcessFrame(m, f)) =>
              (Emits(m) <=>
                 /\ f.face
                 /\ f.head_down
                 /\ CooldownElapsed(mon[m].now, mon[m].last_prompt_time,
                                    config.prompt_cooldown))]_vars

\* _on_stop has run to its end in this step
StopReturns ==
  \/ ctl = "stop_wait" /\ StopMonitorReturn
  \/ OnStop /\ monitor = 0

\* C10: when an explicit stop returns the timer is halted, the monitor handle
\* is cleared, every thread that has not ended has been asked to stop and no
\* thread holds a camera; while the timer is halted nothing but a start
\* changes the phase or the remaining seconds.
C10_StopLeadsToIdle ==
  [][/\ StopReturns =>
          /\ ~timer_active'
          /\ monitor' = 0
          /\ \A m \in Monitors :
               /\ mon'[m].pc \notin {"none", "done", "crashed"}
                    => mon'[m].stop_flag
               /\ mon'[m].cap = NoCap /\ mon'[m].temp_cap = NoCap
     /\ (~timer_active /\ starts' = starts)
          => UNCHANGED <<remaining, is_break_mode>>]_vars

\* C11: a start whose focus total or break total is not positive leaves the
\* timer halted and the phase, the remaining seconds, the monitor handle and
\* the monitors as they were; the timer runs only with both totals >= 1.
C11_RejectsNonPositive ==
  [][/\ (starts' = starts + 1 /\ Rejected(config')) =>
          /\ ~timer_active'
          /\ UNCHANGED <<timer_active, timer_due, is_break_mode, remaining,
                         monitor, mon, created, start_enabled>>
     /\ timer_active' =>
          FocusTotal(config') >= 1 /\ BreakTotal(config') >= 1]_vars

\* after a session that ran a monitor was stopped, a start with a break
\* total of 0 has been rejected
C11_Witness ==
  /\ starts = 2
  /\ created = 1
  /\ FocusTotal(config) >= 1
  /\ BreakTotal(config) = 0
  /\ ~timer_active
  /\ monitor = 0
  /\ start_enabled

\* C12: with monitoring enabled a session runs only after a camera was
\* opened and read: a session in Focus never shows the report that no camera
\* could be opened.
C12_StartAfterVerification ==
  ~(/\ timer_active
    /\ ~is_break_mode
    /\ config.enable_monitor
    /\ monitor_status = "no_camera")

\* C13: _head_down returns true exactly when chinY - eyeMidY > 0 and
\* (noseY - eyeMidY) / (chinY - eyeMidY) > 0.45 = 9/20, eyeMidY being the
\* mean of landmarks 33 and 263, nose landmark 1 and chin landmark 152: a
\* ratio of exactly 9/20 gives false, and so does a denominator <= 0.
C13_HeadDownStrict ==
  head_down # <<>> =>
    LET d2 == 2 * landmarks[152] - (landmarks[33] + landmarks[263])
        n2 == 2 * landmarks[1] - (landmarks[33] + landmarks[263])
    IN  /\ head_down[1] = (d2 > 0 /\ 20 * n2 > 9 * d2)
        /\ d2 <= 0 => head_down[1] = FALSE
        /\ (d2 > 0 /\ 20 * n2 = 9 * d2) => head_down[1] = FALSE

\* _head_down has answered false for a ratio of exactly 0.45 with the two
\* eyes at different heights
C13_Witness ==
  /\ head_down = <<FALSE>>
  /\ landmarks[33] # landmarks[263]
  /\ 2 * landmarks[152] - (landmarks[33] + landmarks[263]) > 0
  /\ 20 * (2 * landmarks[1] - (landmarks[33] + landmarks[263]))
       = 9 * (2 * landmarks[152] - (landmarks[33] + landmarks[263]))

\* C14: for a frame processed while a detector is loaded, the object is
\* present exactly when a detected label is in the allow-list; a frame that
\* is not head-down emits only with such a label, and a frame with the label
\* "cell phone" qualifies, so that it emits once the cooldown has elapsed,
\* whether or not the landmark model found a face.
C14_AllowList ==
  [][\A m \in Monitors : \A f \in Frames :
       (mon[m].yolo /\ ~f.raised /\ ProcessFrame(m, f)) =>
         /\ PhoneDetected(mon[m].yolo, f.labels)
              <=> (f.labels \cap AllowList # {})
         /\ (Emits(m) /\ ~f.head_down) => (f.labels \cap AllowList # {})
         /\ ("cell phone" \in f.labels
               /\ CooldownElapsed(mon[m].now, mon[m].last_prompt_time,
                                  config.prompt_cooldown))
              => Emits(m)]_vars

\* C15: the remaining seconds are never negative, in Idle before the first
\* start, while the session runs in either phase, and in Idle after a stop.
C15_RemainingNonNegative == remaining >= 0

\* a session stopped during Break is idle with seconds of the break left
C15_Witness ==
  /\ ~timer_active
  /\ start_enabled
  /\ starts >= 1
  /\ is_break_mode
  /\ remaining >= 1

\* C16 as stated: a tick switches the phase exactly when the decrement would
\* make the remaining seconds negative, and otherwise only decrements them.
C16_SwitchIffNegative ==
  [][OnTick =>
       /\ (is_break_mode' # is_break_mode) <=> (remaining - 1 < 0)
       /\ (is_break_mode' = is_break_mode) => remaining' = remaining - 1]_vars

\* C16 amended: a tick switches the phase exactly when the decrement would
\* leave no second (remaining - 1 <= 0), and otherwise only decrements the
\* remaining seconds and leaves the phase unchanged.
C16_SwitchIffNonePositive ==
  [][OnTick =>
       /\ (is_break_mode' # is_break_mode) <=> (remaining - 1 <= 0)
       /\ (is_break_mode' = is_break_mode) => remaining' = remaining - 1]_vars

\* a focus phase of two seconds has had a tick that only decremented and a
\* tick that switched to Break
C16_Witness ==
  /\ timer_active
  /\ FocusTotal(config) = 2
  /\ ticks = 2
  /\ is_break_mode
  /\ remaining = BreakTotal(config)

\* C17: while the timer runs and no handler of the control thread is under
\* way, a monitor handle exists exactly when the phase is Focus and monitoring
\* is enabled; a tick from Break to Focus with monitoring enabled creates a
\* new monitor and makes it the handle.
C17_MonitorIffFocus ==
  [][/\ (timer_active' /\ ctl' = "idle") =>
          (monitor' # 0 <=> (~is_break_mode' /\ config'.enable_monitor))
     /\ (OnTick /\ is_break_mode /\ ~is_break_mode' /\ config.enable_monitor)
          => /\ created' = created + 1
             /\ monitor' = created'
             /\ mon'[monitor'] = NewMonitor]_vars

\* the second focus phase of a session runs a second monitor after the first
\* one ended by an exception
C17_Witness ==
  /\ timer_active
  /\ ctl = "idle"
  /\ ~is_break_mode
  /\ starts = 1
  /\ ticks = 2
  /\ created = 2
  /\ monitor = 2
  /\ mon[1].pc = "crashed"
  /\ mon[2].pc # "init"

\* C18: while a polling thread runs, _last_prompt_time changes only in a
\* step that emits prompt_needed, and then to the time of the frame; a read
\* (failed, throttled or accepted), a frame without a face, a frame that is
\* neither head-down nor shows a listed object, and a qualifying frame within
\* the cooldown emit nothing and leave it unchanged.
C18_TriggerTimeOnlyOnEmit ==
  [][\A m \in Monitors :
       (Alive(m) /\ mon'[m].pc \notin {"done", "crashed"}) =>
         /\ mon'[m].last_prompt_time # mon[m].last_prompt_time
              => Emits(m) /\ mon'[m].last_prompt_time = mon[m].now
         /\ Emits(m) => Len(queue') = Len(queue) + 1
         /\ (\E ok \in BOOLEAN : ReadFrame(m, ok))
              => ~Emits(m) /\ queue' = queue
         /\ \A f \in Frames :
              (/\ ProcessFrame(m, f)
               /\ \/ ~f.face
                  \/ ~f.head_down /\ f.labels \cap AllowList = {}
                  \/ mon[m].now - mon[m].last_prompt_time
                       < config.prompt_cooldown * UnitsPerSecond)
                => /\ ~Emits(m)
                   /\ queue' = queue
                   /\ mon'[m].last_prompt_time = mon[m].last_prompt_time]_vars

\* a run that has emitted once has since accepted a frame that did not emit
C18_Witness ==
  \E m \in Monitors :
    /\ mon[m].pc = "loop"
    /\ mon[m].emits = 1
    /\ mon[m].last_frame_time > mon[m].last_prompt_time

\* C19: within one run of the loop a frame is handed to the classifiers only
\* when it was acquired at least the frame interval after the previous one
\* handed to them (the first one always is); a frame read sooner goes back
\* to the test of the loop without a classifier being run, and the time of
\* the last frame handed on changes in no other step.
C19_FrameInterval ==
  [][\A m \in Monitors :
       /\ (mon[m].pc = "read" /\ mon'[m].pc = "process") =>
            /\ clock - mon[m].last_frame_time >= FrameInterval
            /\ mon'[m].last_frame_time = clock
            /\ mon'[m].now = clock
       /\ (mon[m].pc = "read" /\ clock - mon[m].last_frame_time < FrameInterval)
            => mon'[m].pc \in {"read", "loop", "sleep"}
       /\ (Alive(m) /\ mon'[m].pc \notin {"process", "done", "crashed"})
            => mon'[m].last_frame_time = mon[m].last_frame_time]_vars

\* a frame is handed to the classifiers exactly the frame interval after a
\* frame that emitted
C19_Witness ==
  \E m \in Monitors :
    /\ mon[m].pc = "process"
    /\ mon[m].emits = 1
    /\ mon[m].now = mon[m].last_prompt_time + FrameInterval

\* C20: a polling thread whose stop flag is set eventually ends holding no
\* camera, wherever it was when the flag was set, provided every call it
\* makes returns; and a test of the loop that finds the flag set does not
\* enter the body but releases the camera and ends the thread.
C20_StopTerminates ==
  /\ \A m \in Monitors :
       (mon[m].stop_flag /\ Alive(m)) ~> (~Alive(m) /\ Held(m) = {})
  /\ [][\A m \in Monitors :
          (mon[m].pc = "loop" /\ mon[m].stop_flag /\ mon'[m] # mon[m])
            => (mon'[m].pc = "done" /\ mon'[m].cap = NoCap)]_vars

\* the stop flag is set while the thread sleeps after a failed read
C20_Witness ==
  \E m \in Monitors :
    /\ mon[m].pc = "sleep"
    /\ mon[m].stop_flag
    /\ mon[m].cap # NoCap

\* C21: at any time at most one polling thread has not ended and at most
\* one holds an open camera, so a monitor is never running beside one that
\* was started before it.
C21_OnePollingThread ==
  /\ Cardinality({m \in Monitors : Alive(m)}) <= 1
  /\ Cardinality({m \in Monitors : Held(m) # {}}) <= 1

====
